---- MODULE Spec2Model ----
(***************************************************************************)
(* Model of the delivery dashboard script src/main.py.                     *)
(*                                                                         *)
(* The script is rerun top to bottom on every user interaction.  One run   *)
(* is modelled as the sequence of its sections: the data load and sidebar  *)
(* widgets (lines 16-56), the filter step (58-73) and the three tabs       *)
(* (80-114, 117-145, 148-175).  Widget values are the inputs of a run and  *)
(* are drawn where the script reads them.                                  *)
(*                                                                         *)
(* distance_km is kept in tenths of a kilometre (DistScale units per km)   *)
(* so that fractional distances and the int() truncation of the slider     *)
(* bounds are represented.  A mean is kept as the pair <<sum, count>>;     *)
(* <<0, 0>> is the NaN that pandas returns for the mean of no rows.        *)
(***************************************************************************)
EXTENDS Integers, Sequences, FiniteSets, TLC

VARIABLES
    df,                  \* the loaded table: a sequence of rows
    pc,                  \* position of the current script run
    trafico_filter,      \* st.radio value
    dist_range,          \* st.slider value <<lo, hi>> in whole km
    vehiculos_sel,       \* st.multiselect value
    df_filtered,         \* the filtered view
    total_orders,        \* len(df_filtered)
    avg_time,            \* df_filtered['delivery_time_min'].mean()
    avg_distance,        \* df_filtered['distance_km'].mean()
    weather_counts,      \* df_filtered['weather'].value_counts()
    col_name,            \* column chosen by the selectbox
    df_grouped,          \* groupby('delivery_mode')[col_name].mean().sort_values()
    subset,              \* the rows scattered per traffic colour
    random_order,        \* df.sample(1): a frame of one row, or no frame
    shown                \* what the run has put on the page

vars == <<df, pc, trafico_filter, dist_range, vehiculos_sel, df_filtered,
          total_orders, avg_time, avg_distance, weather_counts, col_name,
          df_grouped, subset, random_order, shown>>

----------------------------------------------------------------------------
(* Bounds of the model and the values the data columns take.               *)

MaxRecords == 3

DistScale == 10

\* alphabetical order of the delivery modes, the order groupby sorts keys in
ModeOrder == <<"Bike", "Car">>

Modes == {ModeOrder[i] : i \in 1..Len(ModeOrder)}

Row(d, t, tr, m, w) ==
    [distance_km |-> d, delivery_time_min |-> t, traffic_level |-> tr,
     delivery_mode |-> m, weather |-> w]

\* 1.0 km and 2.5 km
TwoDistances == {DistScale, 2 * DistScale + DistScale \div 2}

\* 1.0 km and 2.0 km
WholeDistances == {DistScale, 2 * DistScale}

\* rows that exercise the three filter predicates together
FilterRows ==
    {Row(d, 20, tr, m, "Sunny") : d \in TwoDistances, tr \in {"Low", "High"}, m \in Modes}

\* rows of every traffic level, one of them outside the three known levels
TrafficRows ==
    {Row(d, 20, tr, "Bike", "Sunny") : d \in WholeDistances,
                                        tr \in {"Low", "Medium", "High", "Jam"}}

\* rows whose per-mode means differ or tie
GroupRows ==
    {Row(d, t, "Low", m, "Sunny") : d \in WholeDistances, t \in {10, 20}, m \in Modes}

\* rows of several weather values
WeatherRows ==
    {Row(d, 20, "Low", "Bike", w) : d \in WholeDistances, w \in {"Sunny", "Rainy"}}

\* rows on and between the whole-km marks of the slider
DistanceRows ==
    {Row(d, 20, "Low", "Bike", "Sunny") :
        d \in {DistScale \div 2, DistScale, 2 * DistScale, 2 * DistScale + DistScale \div 2}}

RowFamilies == {FilterRows, TrafficRows, GroupRows, WeatherRows, DistanceRows}

\* order_id is unique: the row's position in the file
WithIds(rows) ==
    [i \in 1..Len(rows) |->
        [order_id |-> i,
         distance_km |-> rows[i].distance_km,
         delivery_time_min |-> rows[i].delivery_time_min,
         traffic_level |-> rows[i].traffic_level,
         delivery_mode |-> rows[i].delivery_mode,
         weather |-> rows[i].weather]]

Stores ==
    UNION {UNION {{WithIds(s) : s \in [1..n -> F]} : n \in 1..MaxRecords} : F \in RowFamilies}

----------------------------------------------------------------------------
(* pandas operations used by the script.                                   *)

Range(s) == {s[i] : i \in 1..Len(s)}

Min(S) == CHOOSE x \in S : \A y \in S : x <= y

Max(S) == CHOOSE x \in S : \A y \in S : x >= y

\* rounding to the nearest whole km instead of truncating
Round(x) == (x + DistScale \div 2) \div DistScale

\* int(x) for a non-negative x held in DistScale units: truncation
Trunc(x) == x \div DistScale

\* frame[mask]: the rows whose mask entry is true, in frame order
RECURSIVE BoolIndex(_, _)
BoolIndex(frame, mask) ==
    IF frame = <<>> THEN <<>>
    ELSE LET rest == BoolIndex(Tail(frame), [i \in 1..(Len(frame) - 1) |-> mask[i + 1]])
         IN  IF mask[1] THEN <<Head(frame)>> \o rest ELSE rest

RECURSIVE ColumnSum(_, _)
ColumnSum(frame, col) ==
    IF frame = <<>> THEN 0 ELSE Head(frame)[col] + ColumnSum(Tail(frame), col)

\* frame[col].mean() as <<sum, count>>
Mean(frame, col) == <<ColumnSum(frame, col), Len(frame)>>

\* counting each value once instead of once per row
ValueCountsOnce(frame, col) ==
    [v \in {frame[i][col] : i \in 1..Len(frame)} |-> 1]

\* frame[col].value_counts(): a count for every value that occurs
ValueCounts(frame, col) ==
    [v \in {frame[i][col] : i \in 1..Len(frame)} |->
        Cardinality({i \in 1..Len(frame) : frame[i][col] = v})]

\* frame[col].unique()
Unique(frame, col) == {frame[i][col] : i \in 1..Len(frame)}

\* frame.groupby('delivery_mode')[col].mean(): one entry per mode that occurs,
\* in key order
GroupByMean(frame, col) ==
    LET keys == Unique(frame, "delivery_mode")
        present == BoolIndex(ModeOrder, [i \in 1..Len(ModeOrder) |-> ModeOrder[i] \in keys])
    IN  [k \in 1..Len(present) |->
            [delivery_mode |-> present[k],
             mean |-> Mean(BoolIndex(frame,
                                     [i \in 1..Len(frame) |->
                                         frame[i].delivery_mode = present[k]]),
                           col)]]

\* a <= b for two means with at least one row each
MeanLE(a, b) == a[1] * b[2] <= b[1] * a[2]

MeanEQ(a, b) == a[1] * b[2] = b[1] * a[2]

Ascending(s) == \A i, j \in 1..Len(s) : i < j => MeanLE(s[i].mean, s[j].mean)

Arrangements(s) ==
    {[i \in 1..Len(s) |-> s[f[i]]] :
        f \in {g \in [1..Len(s) -> 1..Len(s)] : \A i, j \in 1..Len(s) : g[i] = g[j] => i = j}}

\* the series left in groupby order
SortValuesOmitted(s) == {s}

\* series.sort_values(): ascending, with the default kind 'quicksort', which
\* pandas documents as not stable: every ascending arrangement is an outcome
SortValues(s) == {p \in Arrangements(s) : Ascending(p)}

----------------------------------------------------------------------------
(* The widgets.                                                            *)

TraficoOptions == {"Todos", "Low", "Medium", "High"}

distancia_min == Trunc(Min(Unique(df, "distance_km")))

distancia_max == Trunc(Max(Unique(df, "distance_km")))

\* the pairs the range slider can return
SliderValues ==
    {r \in (distancia_min..distancia_max) \X (distancia_min..distancia_max) : r[1] <= r[2]}

vehiculos_disponibles == Unique(df, "delivery_mode")

col_mapping == {"delivery_time_min", "distance_km"}

colors == {"Low", "Medium", "High"}

----------------------------------------------------------------------------
(* The filter step.                                                        *)

TrafficFilter(frame, tf) ==
    IF tf # "Todos"
    THEN BoolIndex(frame, [i \in 1..Len(frame) |-> frame[i].traffic_level = tf])
    ELSE frame

\* the range test with an exclusive upper bound
DistanceFilterExclusive(frame, range) ==
    BoolIndex(frame, [i \in 1..Len(frame) |->
                        /\ frame[i].distance_km >= range[1] * DistScale
                        /\ frame[i].distance_km < range[2] * DistScale])

DistanceFilter(frame, range) ==
    BoolIndex(frame, [i \in 1..Len(frame) |->
                        /\ frame[i].distance_km >= range[1] * DistScale
                        /\ frame[i].distance_km <= range[2] * DistScale])

\* isin applied without the check that something is selected
VehicleFilterUnguarded(frame, sel) ==
    BoolIndex(frame, [i \in 1..Len(frame) |-> frame[i].delivery_mode \in sel])

VehicleFilter(frame, sel) ==
    IF sel # {}
    THEN BoolIndex(frame, [i \in 1..Len(frame) |-> frame[i].delivery_mode \in sel])
    ELSE frame

----------------------------------------------------------------------------
(* The script run.                                                         *)

NoMean == <<0, 0>>

NoCounts == [v \in {} |-> 0]

NoSubsets == [t \in colors |-> <<>>]

Init ==
    /\ df \in Stores
    /\ pc = "idle"
    /\ trafico_filter = "Todos"
    /\ dist_range = <<0, 0>>
    /\ vehiculos_sel = {}
    /\ df_filtered = <<>>
    /\ total_orders = 0
    /\ avg_time = NoMean
    /\ avg_distance = NoMean
    /\ weather_counts = NoCounts
    /\ col_name = "delivery_time_min"
    /\ df_grouped = <<>>
    /\ subset = NoSubsets
    /\ random_order = <<>>
    /\ shown = {}

\* a new run starts with nothing computed and an empty page
FreshRun ==
    /\ df_filtered' = <<>>
    /\ total_orders' = 0
    /\ avg_time' = NoMean
    /\ avg_distance' = NoMean
    /\ weather_counts' = NoCounts
    /\ col_name' = "delivery_time_min"
    /\ df_grouped' = <<>>
    /\ subset' = NoSubsets
    /\ random_order' = <<>>

\* A user interaction after a run has ended: the script is run again from the
\* top, on the table that load_data cached (lines 10-16)
Rerun ==
    /\ pc \in {"done", "stopped", "fault"}
    /\ pc' = "idle"
    /\ trafico_filter' = "Todos"
    /\ dist_range' = <<0, 0>>
    /\ vehiculos_sel' = {}
    /\ shown' = {}
    /\ FreshRun
    /\ UNCHANGED df

\* the equal-bounds check left out: the run goes on to the filter step
SidebarStopOmitted ==
    /\ pc = "idle"
    /\ \E tf \in TraficoOptions, r \in SliderValues :
         /\ r[1] = r[2]
         /\ trafico_filter' = tf
         /\ dist_range' = r
    /\ vehiculos_sel' = vehiculos_disponibles
    /\ shown' = {"info"}
    /\ pc' = "filter"
    /\ FreshRun
    /\ UNCHANGED df

\* lines 16-47 with dist_range[0] == dist_range[1]: warning and st.stop()
SidebarStop ==
    /\ pc = "idle"
    /\ \E tf \in TraficoOptions, r \in SliderValues :
         /\ r[1] = r[2]
         /\ trafico_filter' = tf
         /\ dist_range' = r
    /\ vehiculos_sel' = {}
    /\ shown' = {"range_warning"}
    /\ pc' = "stopped"
    /\ FreshRun
    /\ UNCHANGED df

\* lines 16-56 with a range that passes the check
Sidebar ==
    /\ pc = "idle"
    /\ \E tf \in TraficoOptions, r \in SliderValues, sel \in SUBSET vehiculos_disponibles :
         /\ r[1] # r[2]
         /\ trafico_filter' = tf
         /\ dist_range' = r
         /\ vehiculos_sel' = sel
    /\ shown' = {"info"}
    /\ pc' = "filter"
    /\ FreshRun
    /\ UNCHANGED df

\* the filters applied to the loaded table itself
ApplyFiltersInPlace ==
    /\ pc = "filter"
    /\ df_filtered' =
         VehicleFilter(DistanceFilter(TrafficFilter(df, trafico_filter), dist_range),
                       vehiculos_sel)
    /\ df' = df_filtered'
    /\ pc' = "tab1"
    /\ UNCHANGED <<trafico_filter, dist_range, vehiculos_sel, total_orders, avg_time,
                   avg_distance, weather_counts, col_name, df_grouped, subset,
                   random_order, shown>>

\* lines 58-73
ApplyFilters ==
    /\ pc = "filter"
    /\ df_filtered' =
         VehicleFilter(DistanceFilter(TrafficFilter(df, trafico_filter), dist_range),
                       vehiculos_sel)
    /\ pc' = "tab1"
    /\ UNCHANGED <<df, trafico_filter, dist_range, vehiculos_sel, total_orders, avg_time,
                   avg_distance, weather_counts, col_name, df_grouped, subset,
                   random_order, shown>>

\* lines 80-114
Tab1 ==
    /\ pc = "tab1"
    /\ avg_time' = Mean(df_filtered, "delivery_time_min")
    /\ total_orders' = Len(df_filtered)
    /\ avg_distance' = Mean(df_filtered, "distance_km")
    /\ IF df_filtered # <<>>
       THEN /\ weather_counts' = ValueCounts(df_filtered, "weather")
            /\ shown' = shown \cup {"metrics", "pie", "hist"}
       ELSE /\ weather_counts' = weather_counts
            /\ shown' = shown \cup {"metrics", "no_data_warning", "hist"}
    /\ pc' = "tab2"
    /\ UNCHANGED <<df, trafico_filter, dist_range, vehiculos_sel, df_filtered, col_name,
                   df_grouped, subset, random_order>>

\* lines 117-145
Tab2 ==
    /\ pc = "tab2"
    /\ \E col \in col_mapping :
         /\ col_name' = col
         /\ df_grouped' \in SortValues(GroupByMean(df_filtered, col))
    /\ shown' = shown \cup {"bar", "dataframe"}
    /\ pc' = "tab3"
    /\ UNCHANGED <<df, trafico_filter, dist_range, vehiculos_sel, df_filtered, total_orders,
                   avg_time, avg_distance, weather_counts, subset, random_order>>

\* lines 117-137 when the bar plot of an empty series raises inside pandas:
\* the run ends with the exception on the page
Tab2Fault ==
    /\ pc = "tab2"
    /\ df_filtered = <<>>
    /\ \E col \in col_mapping :
         /\ col_name' = col
         /\ df_grouped' \in SortValues(GroupByMean(df_filtered, col))
    /\ shown' = shown \cup {"exception"}
    /\ pc' = "fault"
    /\ UNCHANGED <<df, trafico_filter, dist_range, vehiculos_sel, df_filtered, total_orders,
                   avg_time, avg_distance, weather_counts, subset, random_order>>

\* the sample drawn from the filtered view and the scatter given the whole view
Tab3FromView ==
    /\ pc = "tab3"
    /\ subset' = [t \in colors |-> df_filtered]
    /\ \E clicked \in BOOLEAN :
         IF clicked /\ df_filtered # <<>>
         THEN /\ \E i \in 1..Len(df_filtered) : random_order' = <<df_filtered[i]>>
              /\ shown' = shown \cup {"scatter", "success"}
         ELSE /\ random_order' = <<>>
              /\ shown' = shown \cup {"scatter"}
    /\ pc' = "done"
    /\ UNCHANGED <<df, trafico_filter, dist_range, vehiculos_sel, df_filtered, total_orders,
                   avg_time, avg_distance, weather_counts, col_name, df_grouped>>

\* lines 148-175
Tab3 ==
    /\ pc = "tab3"
    /\ subset' = [t \in colors |->
                    BoolIndex(df_filtered,
                              [i \in 1..Len(df_filtered) |-> df_filtered[i].traffic_level = t])]
    /\ \E clicked \in BOOLEAN :
         IF clicked
         THEN /\ \E i \in 1..Len(df) : random_order' = <<df[i]>>
              /\ shown' = shown \cup {"scatter", "success"}
         ELSE /\ random_order' = <<>>
              /\ shown' = shown \cup {"scatter"}
    /\ pc' = "done"
    /\ UNCHANGED <<df, trafico_filter, dist_range, vehiculos_sel, df_filtered, total_orders,
                   avg_time, avg_distance, weather_counts, col_name, df_grouped>>

Next == Rerun \/ SidebarStop \/ Sidebar \/ ApplyFilters \/ Tab1 \/ Tab2 \/ Tab2Fault \/ Tab3

Spec == Init /\ [][Next]_vars

----------------------------------------------------------------------------
(* Properties.                                                             *)

\* the run has passed the filter step
Filtered == pc \in {"tab1", "tab2", "tab3", "done", "fault"}

AfterTab1 == pc \in {"tab2", "tab3", "done", "fault"}

AfterTab2 == pc \in {"tab3", "done"}

TrafficOk(r) == trafico_filter = "Todos" \/ r.traffic_level = trafico_filter

DistanceOk(r) ==
    /\ dist_range[1] * DistScale <= r.distance_km
    /\ r.distance_km <= dist_range[2] * DistScale

ModeOk(r) == vehiculos_sel = {} \/ r.delivery_mode \in vehiculos_sel

Passes(r) == TrafficOk(r) /\ DistanceOk(r) /\ ModeOk(r)

RECURSIVE SumOver(_, _)
SumOver(f, S) ==
    IF S = {} THEN 0
    ELSE LET x == CHOOSE y \in S : TRUE IN f[x] + SumOver(f, S \ {x})

\* C1: once a run has filtered (its range has min < max), the view is exactly
\* the rows of the table, in table order, that pass the traffic test (selector
\* "Todos" or equal level), the inclusive distance test and the mode test
\* (nothing selected, or mode selected); so it is no longer than the table.
C1_FilteredViewExact ==
    Filtered =>
        /\ dist_range[1] < dist_range[2]
        /\ df_filtered = SelectSeq(df, LAMBDA r : Passes(r))
        /\ Len(df_filtered) <= Len(df)

C1_Witness ==
    /\ Filtered
    /\ df_filtered # <<>>
    /\ \E i, j, k \in 1..Len(df) :
         /\ ~TrafficOk(df[i])
         /\ ~DistanceOk(df[j])
         /\ ~ModeOk(df[k])

\* C2 as stated: with no delivery mode selected the view is empty.
C2_EmptySelectionEmptyView ==
    (Filtered /\ vehiculos_sel = {}) => df_filtered = <<>>

\* C2 amended: with no delivery mode selected the mode test is not applied,
\* and the view is the rows that pass the traffic and distance tests.
C2_EmptySelectionSelectsAll ==
    (Filtered /\ vehiculos_sel = {}) =>
        df_filtered = SelectSeq(df, LAMBDA r : TrafficOk(r) /\ DistanceOk(r))

C2_Witness ==
    /\ Filtered
    /\ vehiculos_sel = {}
    /\ df_filtered # <<>>
    /\ Len(df_filtered) < Len(df)

\* C3: a run whose slider value has min = max shows the warning and stops
\* there: no view, no aggregate, no chart and no metric, no fault, and a later
\* interaction can start a new run.
C3_DegenerateRangeStops ==
    (pc # "idle" /\ dist_range[1] = dist_range[2]) =>
        /\ pc = "stopped"
        /\ shown = {"range_warning"}
        /\ df_filtered = <<>>
        /\ total_orders = 0
        /\ avg_time = NoMean
        /\ avg_distance = NoMean
        /\ weather_counts = NoCounts
        /\ df_grouped = <<>>
        /\ subset = NoSubsets
        /\ random_order = <<>>
        /\ ENABLED Rerun

C3_Witness ==
    /\ pc = "stopped"
    /\ dist_range[1] = dist_range[2]
    /\ Len(df) > 1

\* C4 as stated: when the view is empty no consumer formats or charts it (the
\* only output is the placeholder) and the run does not fault.
C4_EmptyViewAllConsumersSkip ==
    (AfterTab1 /\ df_filtered = <<>>) =>
        /\ pc # "fault"
        /\ shown \cap {"metrics", "pie", "hist", "bar", "scatter"} = {}

\* C5: a click on the button draws one row of the loaded table, and at the
\* button every row of the table can be drawn, whatever the view is.
C5_RandomOrderFromStore ==
    /\ (pc = "done" /\ "success" \in shown) =>
          /\ Len(random_order) = 1
          /\ \E i \in 1..Len(df) : random_order[1] = df[i]
    /\ pc = "tab3" =>
          \A i \in 1..Len(df) : ENABLED (Tab3 /\ random_order' = <<df[i]>>)

C5_Witness ==
    /\ pc = "done"
    /\ "success" \in shown
    /\ df_filtered # <<>>
    /\ \A i \in 1..Len(df_filtered) : random_order[1] # df_filtered[i]

RowsOfMode(m) == SelectSeq(df_filtered, LAMBDA r : r.delivery_mode = m)

ModeRank(m) == CHOOSE i \in 1..Len(ModeOrder) : ModeOrder[i] = m

\* one entry per mode of the view, each with the mean of the chosen column
\* over the mode's rows
GroupedEntriesExact ==
    /\ {df_grouped[k].delivery_mode : k \in 1..Len(df_grouped)}
         = {df_filtered[i].delivery_mode : i \in 1..Len(df_filtered)}
    /\ \A k, l \in 1..Len(df_grouped) :
         df_grouped[k].delivery_mode = df_grouped[l].delivery_mode => k = l
    /\ \A k \in 1..Len(df_grouped) :
         LET rows == RowsOfMode(df_grouped[k].delivery_mode)
         IN  /\ df_grouped[k].mean[2] = Len(rows)
             /\ df_grouped[k].mean[1] = SumOver([i \in 1..Len(rows) |-> rows[i][col_name]],
                                                1..Len(rows))

GroupedAscending ==
    \A k, l \in 1..Len(df_grouped) :
        k < l => df_grouped[k].mean[1] * df_grouped[l].mean[2]
                   <= df_grouped[l].mean[1] * df_grouped[k].mean[2]

\* C6 as stated: for a non-empty view the grouped means have one entry per
\* mode of the view, each the mean over the mode's rows, ascending by mean,
\* and entries with equal means keep the order in which sort_values got them.
C6_GroupedStableTies ==
    (AfterTab2 /\ df_filtered # <<>>) =>
        /\ GroupedEntriesExact
        /\ GroupedAscending
        /\ \A k, l \in 1..Len(df_grouped) :
             (k < l /\ MeanEQ(df_grouped[k].mean, df_grouped[l].mean)) =>
                 ModeRank(df_grouped[k].delivery_mode) < ModeRank(df_grouped[l].delivery_mode)

\* C6 amended: for a non-empty view the grouped means have one entry per mode
\* of the view, each the mean over the mode's rows, ascending by mean; the
\* order of entries with equal means is not fixed.
C6_GroupedAscendingMeans ==
    (AfterTab2 /\ df_filtered # <<>>) =>
        /\ GroupedEntriesExact
        /\ GroupedAscending

C6_Witness ==
    /\ AfterTab2
    /\ Len(df_grouped) = 2
    /\ Len(df_filtered) = 3
    /\ ~MeanEQ(df_grouped[1].mean, df_grouped[2].mean)
    /\ ModeRank(df_grouped[1].delivery_mode) > ModeRank(df_grouped[2].delivery_mode)

\* C7: the three scatter subsets are the Low, Medium and High rows of the
\* view, pairwise disjoint, together exactly the view's rows of those three
\* levels; a row of another level is counted by the metrics and is in none.
C7_TrafficPartitions ==
    pc = "done" =>
        /\ DOMAIN subset = {"Low", "Medium", "High"}
        /\ \A t \in DOMAIN subset :
             subset[t] = SelectSeq(df_filtered, LAMBDA r : r.traffic_level = t)
        /\ \A t, u \in DOMAIN subset : t # u => Range(subset[t]) \cap Range(subset[u]) = {}
        /\ UNION {Range(subset[t]) : t \in DOMAIN subset}
             = {r \in Range(df_filtered) : r.traffic_level \in {"Low", "Medium", "High"}}
        /\ total_orders = Len(df_filtered)
        /\ avg_time[2] = Len(df_filtered)

C7_Witness ==
    /\ pc = "done"
    /\ \E r \in Range(df_filtered) : r.traffic_level \notin {"Low", "Medium", "High"}
    /\ Cardinality({t \in DOMAIN subset : subset[t] # <<>>}) >= 2

\* C8: after the first tab the weather counts have an entry for exactly the
\* weather values of the view, and the counts add up to the view's length.
C8_WeatherDistribution ==
    AfterTab1 =>
        /\ DOMAIN weather_counts = {df_filtered[i].weather : i \in 1..Len(df_filtered)}
        /\ SumOver(weather_counts, DOMAIN weather_counts) = Len(df_filtered)

C8_Witness ==
    /\ AfterTab1
    /\ Cardinality(DOMAIN weather_counts) = 2
    /\ \E w \in DOMAIN weather_counts : weather_counts[w] = 2

\* C9: no step of any run changes the loaded table.
C9_StoreNeverMutated == [][df' = df]_vars

C9_Witness ==
    /\ pc = "done"
    /\ "success" \in shown
    /\ df_filtered # <<>>
    /\ Len(df_filtered) < Len(df)

\* C10: the slider value of a run that filters lies between the truncated
\* minimum and maximum distance of the table, and a row farther than the
\* truncated maximum is in no view.
C10_TruncatedBoundsExcludeTail ==
    LET lowest == Min({df[i].distance_km : i \in 1..Len(df)})
        highest == Max({df[i].distance_km : i \in 1..Len(df)})
    IN  Filtered =>
            /\ lowest \div DistScale <= dist_range[1]
            /\ dist_range[2] <= highest \div DistScale
            /\ \A i \in 1..Len(df) :
                 df[i].distance_km > (highest \div DistScale) * DistScale =>
                     \A j \in 1..Len(df_filtered) : df_filtered[j] # df[i]

C10_Witness ==
    /\ Filtered
    /\ trafico_filter = "Todos"
    /\ dist_range = <<distancia_min, distancia_max>>
    /\ vehiculos_sel = vehiculos_disponibles
    /\ df_filtered # <<>>
    /\ \E i \in 1..Len(df) : df[i].distance_km > distancia_max * DistScale

====
